---- MODULE Spec2Model ----
(***************************************************************************)
(* Chandrika Hospital patient management: the radiology order state        *)
(* machine with its film ledger (App.handleUpdateXray, handleAddFilms,     *)
(* XrayView, Dashboard restock, apiService persistence) and the            *)
(* physiotherapy planner (PlannerView, App.handleUpdatePlan).              *)
(*                                                                         *)
(* The repository holds several revisions of the same screens.  `build`    *)
(* selects which revision of App / XrayView / Dashboard is running:        *)
(*   "current" : App (part_013), components/XrayView.tsx,                  *)
(*               components/Dashboard.tsx, services/apiService.ts          *)
(*   "interim" : App (part_013) with the XrayView of part_002              *)
(*               (Complete File button, no Replace Scan, no films input)   *)
(*   "legacy"  : App of part_011 (flat one-film deduction), XrayView of    *)
(*               part_003 (no stock check, Workflow Status buttons),       *)
(*               Dashboard of part_006 (Add Stock without a guard)         *)
(* `cloud` is isSupabaseConfigured(): FALSE means the localStorage store.  *)
(***************************************************************************)
EXTENDS Integers, Sequences, FiniteSets, Bags, TLC

----------------------------------------------------------------------------
(* Bounds *)

MaxFilms == 2
MaxDebt == 1
MaxParts == 2
MaxInFlight == 2
MaxAiRuns == 1
LastDay == 2
MaxSessions == 2
MaxPlanOps == 2
MaxStoredSessions == 3

----------------------------------------------------------------------------
(* Values *)

Builds == {"current", "interim", "legacy"}

XrayStatuses == {"ordered", "captured", "reported"}

\* Position of a status on the path ordered -> captured -> reported.
StatusRank(s) == CASE s = "ordered" -> 0 [] s = "captured" -> 1 [] s = "reported" -> 2

\* Texts typed into a <input type="number"> (its value is a string).
TypedInputs == {"", "-1", "0", "1", "2", "1.9"}

\* JavaScript parseInt on those texts: NaN for the empty text, otherwise the
\* leading integer (the fraction is dropped).
ParseInt(s) ==
  CASE s = ""    -> [nan |-> TRUE,  val |-> 0]
    [] s = "-1"  -> [nan |-> FALSE, val |-> 0 - 1]
    [] s = "0"   -> [nan |-> FALSE, val |-> 0]
    [] s = "1"   -> [nan |-> FALSE, val |-> 1]
    [] s = "2"   -> [nan |-> FALSE, val |-> 2]
    [] s = "1.9" -> [nan |-> FALSE, val |-> 1]

\* JavaScript `n || d` on a parseInt result: NaN and 0 are falsy.
OrElse(n, d) == IF n.nan \/ n.val = 0 THEN d ELSE n.val

\* JavaScript `n > 0` on a parseInt result: NaN compares false.
IsPositive(n) == ~n.nan /\ n.val > 0

Max(a, b) == IF a >= b THEN a ELSE b

Min(a, b) == IF a <= b THEN a ELSE b

----------------------------------------------------------------------------
(* State *)

VARIABLES
  build,        \* which revision of the screens is running
  cloud,        \* isSupabaseConfigured()
  filmCount,    \* App state filmCount
  xray,         \* the selected patient's xrayData in App state `patients`
  filmsToUse,   \* XrayView state filmsToUse
  syncError,    \* App state syncError
  alert,        \* the last window.alert shown
  dbFilms,      \* persisted film count (clinical_settings / LOCAL_FIL_KEY)
  dbXray,       \* persisted xrayData of the patient: its status and filmConsumed
  dbDeducted,   \* history: a deducted film count of the order was written to the store
  calls,        \* handleUpdateXray / handleAddFilms invocations suspended at an await
  aiRuns,       \* handleRunAI invocations awaiting analyzeXrayImage
  decreases     \* history: handleUpdateXray invocations that lowered filmCount

xvars == <<build, cloud, filmCount, xray, filmsToUse, syncError, alert,
           dbFilms, dbXray, dbDeducted, calls, aiRuns, decreases>>

VARIABLES
  dates,        \* PlannerView `dates`: the expanded calendar of the patient
  selectedDays, \* patient.selectedDays: the weekdays the patient is scheduled on
  selectedDate, \* PlannerView state selectedDate
  dailyPlans,   \* patient.dailyPlans in App state `patients`
  isAiLoading,  \* PlannerView state isAiLoading
  suggests,     \* handleSuggestAI invocations awaiting suggestPhysioPlan
  aiOutcome,    \* history: how the last handleSuggestAI invocation ended
  planOps       \* history: plan updates published so far

pvars == <<dates, selectedDays, selectedDate, dailyPlans, isAiLoading, suggests,
           aiOutcome, planOps>>

vars == <<xvars, pvars>>

\* No planner screen is open (the selected patient is an x-ray patient).
NoPlanner ==
  /\ dates = << >>
  /\ selectedDays = {}
  /\ selectedDate = 0
  /\ dailyPlans = << >>
  /\ isAiLoading = FALSE
  /\ suggests = EmptyBag
  /\ aiOutcome = "none"
  /\ planOps = 0

\* XrayData as AddPatientModal creates it: filmsUsedCount and filmConsumed are
\* absent (0 and FALSE stand for undefined, which the code only tests for
\* truthiness) and there is no image.  The report text is left out: no guard
\* reads it.
NewOrder ==
  [status |-> "ordered", hasImage |-> FALSE,
   filmsUsedCount |-> 0, filmConsumed |-> FALSE]

\* What the store keeps of an XrayData written by savePatients, as far as it
\* is followed here.
Stored(x) == [status |-> x.status, filmConsumed |-> x.filmConsumed]

\* useState initialiser of filmsToUse.
InitialFilmsToUse(x, nParts) ==
  IF x.filmsUsedCount # 0 THEN x.filmsUsedCount ELSE Max(1, nParts)

InitBuilds(bs) ==
  /\ build \in bs
  /\ cloud \in (IF build = "legacy" THEN {TRUE} ELSE BOOLEAN)
  /\ filmCount \in 0..MaxFilms
  /\ dbFilms = filmCount
  /\ xray = NewOrder
  /\ dbXray = Stored(NewOrder)
  /\ \E nParts \in 0..MaxParts : filmsToUse = InitialFilmsToUse(NewOrder, nParts)
  /\ syncError = FALSE
  /\ alert = "none"
  /\ dbDeducted = FALSE
  /\ calls = EmptyBag
  /\ aiRuns = EmptyBag
  /\ decreases = 0
  /\ NoPlanner

----------------------------------------------------------------------------
(* App: handleUpdateXray and handleAddFilms *)

\* The deduction guard of handleUpdateXray in the current App.
ShouldDeductCounted(upd) ==
  upd.status # "ordered" /\ upd.filmsUsedCount # 0 /\ ~upd.filmConsumed

\* The deduction guard of handleUpdateXray in the legacy App.
ShouldDeductFlat(upd) ==
  upd.status # "ordered" /\ ~upd.filmConsumed

ShouldDeduct(upd) ==
  IF build = "legacy" THEN ShouldDeductFlat(upd) ELSE ShouldDeductCounted(upd)

\* A deduction of one film whatever the update says (what the deduction is
\* compared against).
AlwaysOneFilm(upd) == 1

\* Films taken off the ledger: filmsUsedCount in the current App, a flat 1 in
\* the legacy App.
Deduction(upd) == IF build = "legacy" THEN 1 ELSE upd.filmsUsedCount

\* currentFilms = Math.max(0, filmCount - deduction), on the filmCount `fc`
\* the handler closed over.
FilmsAfterDeduction(fc, upd) == Max(0, fc - Deduction(upd))

\* A suspended handler invocation.  op "xray" is handleUpdateXray, op "films"
\* is handleAddFilms; pc "film" awaits apiService.updateFilmCount(films),
\* pc "save" awaits apiService.savePatients with xrayData = upd.  Only what
\* the rest of the handler still reads is kept: handleAddFilms reads no order
\* (NewOrder stands in), the savePatients stage reads no film count (0).
Call(op, pc, upd, films) ==
  [op |-> op, pc |-> pc, upd |-> upd, films |-> films]

\* The localStorage store is written synchronously: a handler runs through its
\* awaits before the next user event.  With Supabase the awaits are network
\* round trips and user events interleave.
UiReady == cloud \/ calls = EmptyBag

\* handleUpdateXray(upd0) up to its first await, run by a handler that closed
\* over film count fc.
HandleUpdateXray(upd0, fc) ==
  LET deduct == ShouldDeduct(upd0)
      currentFilms == IF deduct THEN FilmsAfterDeduction(fc, upd0) ELSE fc
      upd == IF deduct THEN [upd0 EXCEPT !.filmConsumed = TRUE] ELSE upd0
  IN /\ BagCardinality(calls) < MaxInFlight
     /\ currentFilms <= MaxFilms
     /\ syncError' = FALSE
     /\ IF deduct
        THEN /\ filmCount' = currentFilms
             /\ xray' = xray
             /\ calls' = calls (+) SetToBag({Call("xray", "film", upd, currentFilms)})
             /\ decreases' = IF currentFilms < filmCount
                             THEN Min(decreases + 1, 2) ELSE decreases
        ELSE /\ filmCount' = filmCount
             /\ xray' = upd
             /\ calls' = calls (+) SetToBag({Call("xray", "save", upd, 0)})
             /\ decreases' = decreases
     /\ UNCHANGED <<pvars, build, cloud, dbFilms, dbXray, dbDeducted>>

\* handleAddFilms(count) up to its await.
HandleAddFilms(count) ==
  LET newTotal == filmCount + count
  IN /\ BagCardinality(calls) < MaxInFlight
     /\ newTotal <= MaxFilms
     /\ newTotal >= 0 - MaxDebt
     /\ syncError' = FALSE
     /\ filmCount' = newTotal
     /\ calls' = calls (+) SetToBag({Call("films", "film", NewOrder, newTotal)})
     /\ UNCHANGED <<pvars, build, cloud, xray, dbFilms, dbXray, dbDeducted, decreases>>

\* The suspended invocations, less one that resumes.
Without(bag, c) == bag (-) SetToBag({c})

\* What runs after `await apiService.updateFilmCount(..)` returns normally:
\* handleUpdateXray goes on to setPatients and calls savePatients;
\* handleAddFilms is finished.
AfterFilmWrite(c) ==
  IF c.op = "xray"
  THEN /\ xray' = c.upd
       /\ calls' = Without(calls, c) (+) SetToBag({Call("xray", "save", c.upd, 0)})
  ELSE /\ xray' = xray
       /\ calls' = Without(calls, c)

\* apiService.updateFilmCount wrote the count.
FilmWriteOk ==
  \E c \in BagToSet(calls) :
    /\ c.pc = "film"
    /\ dbFilms' = c.films
    /\ dbDeducted' = (dbDeducted \/ c.op = "xray")
    /\ AfterFilmWrite(c)
    /\ UNCHANGED <<pvars, build, cloud, filmCount, filmsToUse, syncError, alert,
                   dbXray, aiRuns, decreases>>

\* apiService.updateFilmCount with Supabase: the failed upsert is swallowed by
\* its try/catch (or its error result is ignored) and the handler goes on.
FilmWriteLost ==
  \E c \in BagToSet(calls) :
    /\ cloud
    /\ c.pc = "film"
    /\ AfterFilmWrite(c)
    /\ UNCHANGED <<pvars, build, cloud, filmCount, filmsToUse, syncError, alert,
                   dbFilms, dbXray, dbDeducted, aiRuns, decreases>>

\* apiService.updateFilmCount on localStorage: setItem throws (quota), the
\* handler's catch sets syncError and the rest of the handler is skipped.
FilmWriteThrows ==
  \E c \in BagToSet(calls) :
    /\ ~cloud
    /\ c.pc = "film"
    /\ syncError' = TRUE
    /\ calls' = Without(calls, c)
    /\ UNCHANGED <<pvars, build, cloud, filmCount, xray, filmsToUse, alert,
                   dbFilms, dbXray, dbDeducted, aiRuns, decreases>>

\* apiService.savePatients wrote the patient list.
SaveOk ==
  \E c \in BagToSet(calls) :
    /\ c.pc = "save"
    /\ dbXray' = Stored(c.upd)
    /\ calls' = Without(calls, c)
    /\ UNCHANGED <<pvars, build, cloud, filmCount, xray, filmsToUse, syncError, alert,
                   dbFilms, dbDeducted, aiRuns, decreases>>

\* apiService.savePatients with Supabase in the current service: the failure
\* is caught and logged inside savePatients, the handler sees success.
SaveLost ==
  \E c \in BagToSet(calls) :
    /\ cloud
    /\ build # "legacy"
    /\ c.pc = "save"
    /\ calls' = Without(calls, c)
    /\ UNCHANGED <<pvars, build, cloud, filmCount, xray, filmsToUse, syncError, alert,
                   dbFilms, dbXray, dbDeducted, aiRuns, decreases>>

\* apiService.savePatients throws: localStorage.setItem in the current service
\* (the handler's catch sets syncError), the rethrow of the legacy service (the
\* legacy handler has only a finally).
SaveThrows ==
  \E c \in BagToSet(calls) :
    /\ ~cloud \/ build = "legacy"
    /\ c.pc = "save"
    /\ syncError' = (IF build = "legacy" THEN syncError ELSE TRUE)
    /\ calls' = Without(calls, c)
    /\ UNCHANGED <<pvars, build, cloud, filmCount, xray, filmsToUse, alert,
                   dbFilms, dbXray, dbDeducted, aiRuns, decreases>>

----------------------------------------------------------------------------
(* XrayView, current revision *)

\* onChange of the "Films to Use" input: parseInt(e.target.value) || 1.
SetFilmsToUse ==
  \E s \in TypedInputs :
    /\ build = "current"
    /\ UiReady
    /\ filmsToUse' = OrElse(ParseInt(s), 1)
    /\ UNCHANGED <<pvars, build, cloud, filmCount, xray, syncError, alert, dbFilms,
                   dbXray, dbDeducted, calls, aiRuns, decreases>>

\* A test of the stock that lets every upload through (what the stock test
\* of handleFileUpload is compared against).
NeverInsufficient(availableFilms, wanted) == FALSE

\* The stock check of handleFileUpload: availableFilms < filmsToUse.
InsufficientFilms(availableFilms, wanted) == availableFilms < wanted

\* The XrayData handleFileUpload passes to onUpdateXray.
CapturedOrder(x, films) ==
  [x EXCEPT !.hasImage = TRUE, !.status = "captured", !.filmsUsedCount = films]

\* handleFileUpload with a file chosen ("Upload Digital Scan" and "Replace
\* Scan" both open the same file input).
HandleFileUpload ==
  /\ build = "current"
  /\ UiReady
  /\ IF InsufficientFilms(filmCount, filmsToUse)
     THEN /\ alert' = "insufficient"
          /\ UNCHANGED <<pvars, build, cloud, filmCount, xray, filmsToUse, syncError,
                         dbFilms, dbXray, dbDeducted, calls, aiRuns, decreases>>
     ELSE /\ HandleUpdateXray(CapturedOrder(xray, filmsToUse), filmCount)
          /\ UNCHANGED <<filmsToUse, alert, aiRuns>>

\* The XrayData handleRunAI passes to onUpdateXray.
ReportedOrder(x) == [x EXCEPT !.status = "reported"]

\* handleRunAI up to `await analyzeXrayImage`: it keeps the xray and the
\* onUpdateXray (with its filmCount) of the render it was clicked in.  The
\* film count is read only if the update will deduct; otherwise 0 is kept.
StartRunAI ==
  /\ UiReady
  /\ xray.hasImage
  /\ BagCardinality(aiRuns) < MaxAiRuns
  /\ aiRuns' = aiRuns (+) SetToBag({[snap |-> xray,
                                    fc |-> IF ShouldDeduct(ReportedOrder(xray))
                                           THEN filmCount ELSE 0]})
  /\ UNCHANGED <<pvars, build, cloud, filmCount, xray, filmsToUse, syncError, alert,
                 dbFilms, dbXray, dbDeducted, calls, decreases>>

\* analyzeXrayImage resolved: onUpdateXray({...xray, aiReport, status}).
RunAIReturns ==
  \E r \in BagToSet(aiRuns) :
    /\ UiReady
    /\ HandleUpdateXray(ReportedOrder(r.snap), r.fc)
    /\ aiRuns' = Without(aiRuns, r)
    /\ UNCHANGED <<filmsToUse, alert>>

\* analyzeXrayImage rejected: the catch alerts.
RunAIFails ==
  \E r \in BagToSet(aiRuns) :
    /\ UiReady
    /\ alert' = "aiError"
    /\ aiRuns' = Without(aiRuns, r)
    /\ UNCHANGED <<pvars, build, cloud, filmCount, xray, filmsToUse, syncError,
                   dbFilms, dbXray, dbDeducted, calls, decreases>>

----------------------------------------------------------------------------
(* Dashboard, current revision *)

\* The Restock "Add" button: count = parseInt(addFilmValue);
\* if (count > 0) onAddFilms(count).
RestockAddClick(s) ==
  /\ build # "legacy"
  /\ UiReady
  /\ IsPositive(ParseInt(s))
  /\ HandleAddFilms(ParseInt(s).val)
  /\ UNCHANGED <<filmsToUse, alert, aiRuns>>

RestockAdd == \E s \in TypedInputs : RestockAddClick(s)

----------------------------------------------------------------------------
(* The other revisions of XrayView and Dashboard *)

\* part_002 handleFileUpload: the upload button is shown only while the order
\* has no image.
HandleFileUploadInterim ==
  /\ build = "interim"
  /\ UiReady
  /\ ~xray.hasImage
  /\ IF InsufficientFilms(filmCount, filmsToUse)
     THEN /\ alert' = "insufficient"
          /\ UNCHANGED <<pvars, build, cloud, filmCount, xray, filmsToUse, syncError,
                         dbFilms, dbXray, dbDeducted, calls, aiRuns, decreases>>
     ELSE /\ HandleUpdateXray(CapturedOrder(xray, filmsToUse), filmCount)
          /\ UNCHANGED <<filmsToUse, alert, aiRuns>>

\* part_002 "Complete File": onUpdateXray({...xray, status: 'reported'}).
CompleteFile ==
  /\ build = "interim"
  /\ UiReady
  /\ HandleUpdateXray([xray EXCEPT !.status = "reported"], filmCount)
  /\ UNCHANGED <<filmsToUse, alert, aiRuns>>

\* part_003 handleFileUpload: no stock check, no filmsUsedCount.
HandleFileUploadLegacy ==
  /\ build = "legacy"
  /\ UiReady
  /\ HandleUpdateXray([xray EXCEPT !.hasImage = TRUE, !.status = "captured"],
                      filmCount)
  /\ UNCHANGED <<filmsToUse, alert, aiRuns>>

\* part_003 updateStatus(status), one Workflow Status button per status.
UpdateStatus ==
  \E s \in XrayStatuses :
    /\ build = "legacy"
    /\ UiReady
    /\ HandleUpdateXray([xray EXCEPT !.status = s], filmCount)
    /\ UNCHANGED <<filmsToUse, alert, aiRuns>>

\* part_006 "Add Stock": onAddFilms(parseInt(addFilmValue) || 0).
AddStockClick(s) ==
  /\ build = "legacy"
  /\ UiReady
  /\ HandleAddFilms(OrElse(ParseInt(s), 0))
  /\ UNCHANGED <<filmsToUse, alert, aiRuns>>

AddStock == \E s \in TypedInputs : AddStockClick(s)

----------------------------------------------------------------------------
(* PlannerView: the calendar *)

\* The cap of the loop that expands the calendar.
SafetyLimit == 365

\* The zone of the browser: at instant `at` (hours since 00:00 UTC of day 0)
\* its clocks go forward by `hours` (back when negative); hours = 0 is a zone
\* without daylight saving.
TimeZones ==
  {[at |-> 0, hours |-> 0], [at |-> 36, hours |-> 1], [at |-> 36, hours |-> 0 - 1]}

\* The while loop of `dates`: `current` is an instant in hours; its UTC date
\* (toISOString) is pushed, then setDate(getDate() + 1) moves it one local
\* day on, which is 24 hours less the clock change it passes.
RECURSIVE DatesFrom(_, _, _, _)
DatesFrom(current, end, safetyCounter, tz) ==
  IF current <= end /\ safetyCounter < SafetyLimit
  THEN LET passes == current < tz.at /\ tz.at <= current + 24
           next == current + 24 - (IF passes THEN tz.hours ELSE 0)
       IN <<current \div 24>> \o DatesFrom(next, end, safetyCounter + 1, tz)
  ELSE << >>

\* dates for a patient whose startDate is day `startDay` and endDate day
\* `endDay` (new Date("YYYY-MM-DD") is 00:00 UTC of that day).
ExpandDates(startDay, endDay, tz) == DatesFrom(24 * startDay, 24 * endDay, 0, tz)

\* Array.indexOf / findIndex, counted from 1; 0 when absent.
IndexOf(seq, x) ==
  IF \E i \in DOMAIN seq : seq[i] = x
  THEN CHOOSE i \in DOMAIN seq : seq[i] = x /\ \A j \in 1..(i - 1) : seq[j] # x
  ELSE 0

\* DayOfWeek.
DayNames ==
  <<"Monday", "Tuesday", "Wednesday", "Thursday", "Friday", "Saturday", "Sunday">>

\* The weekday of a date key (the label of its calendar button); day 1 is a
\* Monday.
WeekdayOf(day) == DayNames[((day + 6) % 7) + 1]

----------------------------------------------------------------------------
(* PlannerView and App.handleUpdatePlan: the plan list *)

\* A session saved on an earlier visit and recorded as missed.
StoredSession ==
  [id |-> 1, name |-> "Laser Therapy", duration |-> 10, notes |-> "50Hz",
   status |-> "missed"]

\* patient.dailyPlans as getPatients loads it when the planner is opened:
\* none yet, or the plan of day 1 with that session.
StoredPlans == {<< >>, <<[date |-> 1, sessions |-> <<StoredSession>>]>>}

\* HOSPITAL_THERAPIES[2].
DefaultTherapy == "Ultrasound Therapy"

SessionStatuses == {"pending", "completed", "missed"}

\* dailyPlans.find(p => p.date === date), as an index; 0 when absent.
PlanIndex(plans, date) ==
  IF \E i \in DOMAIN plans : plans[i].date = date
  THEN CHOOSE i \in DOMAIN plans :
         plans[i].date = date /\ \A j \in 1..(i - 1) : plans[j].date # date
  ELSE 0

SessionIds(plans) ==
  UNION {{plans[i].sessions[j].id : j \in DOMAIN plans[i].sessions} : i \in DOMAIN plans}

RECURSIVE TotalSessions(_)
TotalSessions(plans) ==
  IF plans = << >> THEN 0 ELSE Len(Head(plans).sessions) + TotalSessions(Tail(plans))

\* Session ids in use in App state or in a pending handleSuggestAI.
UsedIds ==
  SessionIds(dailyPlans) \cup UNION {SessionIds(r.plans) : r \in BagToSet(suggests)}

\* Math.random().toString(36).substr(2, 9), n times: ids that differ from the
\* ids in use and from each other.  Which ones is immaterial; the least are
\* taken.
RECURSIVE FreshIds(_, _)
FreshIds(used, n) ==
  IF n = 0 THEN << >>
  ELSE LET id == CHOOSE k \in 1..(Cardinality(used) + 1) :
                   k \notin used /\ \A m \in 1..(k - 1) : m \in used
       IN <<id>> \o FreshIds(used \cup {id}, n - 1)

\* The other variables App.handleUpdatePlan leaves alone.
xrest == <<build, cloud, filmCount, xray, filmsToUse, alert, dbFilms, dbXray,
           dbDeducted, calls, aiRuns, decreases>>

\* App.handleUpdatePlan(updatedPlans): setPatients, then savePatients, which
\* writes the list or fails (a throw of localStorage reaches the catch, a
\* Supabase failure is swallowed by savePatients).  Of the write only its
\* outcome is followed, in the same step as the call; the stored copy of the
\* plans is not.  An update may not grow the plans beyond MaxSessions sessions.
\* `written` is whether savePatients wrote the list.
HandleUpdatePlanWith(updatedPlans, written) ==
  /\ planOps < MaxPlanOps
  /\ TotalSessions(updatedPlans) <= Max(MaxSessions, TotalSessions(dailyPlans))
  /\ planOps' = planOps + 1
  /\ dailyPlans' = updatedPlans
  /\ syncError' = (~written /\ ~cloud)
  /\ UNCHANGED <<xrest, dates, selectedDays>>

HandleUpdatePlan(updatedPlans) ==
  \E written \in BOOLEAN : HandleUpdatePlanWith(updatedPlans, written)

\* The session handleAddSession creates.
NewSession(id) ==
  [id |-> id, name |-> DefaultTherapy, duration |-> 15, notes |-> "",
   status |-> "pending"]

\* An add that never looks for the plan of the date (what the upsert is
\* compared against).
AlwaysNewPlan(plans, date, newSession) ==
  Append(plans, [date |-> date, sessions |-> <<newSession>>])

\* An add that overwrites the sessions of the date (what the append is
\* compared against).
OverwritingAdd(plans, date, newSession) ==
  IF PlanIndex(plans, date) # 0
  THEN [i \in DOMAIN plans |->
          IF plans[i].date = date
          THEN [plans[i] EXCEPT !.sessions = <<newSession>>]
          ELSE plans[i]]
  ELSE Append(plans, [date |-> date, sessions |-> <<newSession>>])

\* updatedPlans of handleAddSession(date).
WithAddedSession(plans, date, newSession) ==
  IF PlanIndex(plans, date) # 0
  THEN [i \in DOMAIN plans |->
          IF plans[i].date = date
          THEN [plans[i] EXCEPT !.sessions = Append(@, newSession)]
          ELSE plans[i]]
  ELSE Append(plans, [date |-> date, sessions |-> <<newSession>>])

\* "+ Machine Entry": handleAddSession(selectedDate).
HandleAddSession ==
  /\ HandleUpdatePlan(WithAddedSession(dailyPlans, selectedDate,
                                       NewSession(FreshIds(UsedIds, 1)[1])))
  /\ UNCHANGED <<selectedDate, isAiLoading, suggests, aiOutcome>>

\* newSessions of handleCopyPrevious: new id, status pending, the rest kept.
ClonedSessions(sessions, ids) ==
  [j \in DOMAIN sessions |-> [sessions[j] EXCEPT !.id = ids[j], !.status = "pending"]]

\* A copy that keeps the sessions the date already has and puts the clones
\* after them (what the replacement is compared against).
AppendingCopy(plans, date, newSessions) ==
  IF PlanIndex(plans, date) = 0
  THEN Append(plans, [date |-> date, sessions |-> newSessions])
  ELSE [i \in DOMAIN plans |->
          IF plans[i].date = date
          THEN [plans[i] EXCEPT !.sessions = @ \o newSessions]
          ELSE plans[i]]

\* A copy that moves the sessions: the plans of the other dates are left
\* without sessions (what the untouched dates are compared against).
MovingCopy(plans, date, newSessions) ==
  LET mapped == [i \in DOMAIN plans |->
                   [plans[i] EXCEPT !.sessions =
                      IF plans[i].date = date THEN newSessions ELSE << >>]]
  IN IF PlanIndex(mapped, date) = 0
     THEN Append(mapped, [date |-> date, sessions |-> newSessions])
     ELSE mapped

\* updatedPlans of handleCopyPrevious.
WithCopiedSessions(plans, date, newSessions) ==
  LET mapped == [i \in DOMAIN plans |->
                   IF plans[i].date = date
                   THEN [plans[i] EXCEPT !.sessions = newSessions]
                   ELSE plans[i]]
  IN IF PlanIndex(mapped, date) = 0
     THEN Append(mapped, [date |-> date, sessions |-> newSessions])
     ELSE mapped

\* A previous-day lookup that wraps around: on the first date it takes the
\* last date of the calendar (what the early return is compared against).
WrappingPrevPlanIndex(plans, currentIndex) ==
  IF currentIndex = 0 THEN 0
  ELSE PlanIndex(plans, dates[IF currentIndex = 1 THEN Len(dates) ELSE currentIndex - 1])

\* prevPlan of handleCopyPrevious, as an index into the plans; 0 when the
\* handler returns early (currentIndex, counted from 1, is the first or
\* absent) or dates[currentIndex - 1] has no plan.
PrevPlanIndex(plans, currentIndex) ==
  IF currentIndex <= 1 THEN 0 ELSE PlanIndex(plans, dates[currentIndex - 1])

\* "Copy Prev Day": handleCopyPrevious.  Without a previous plan the click
\* changes nothing.
HandleCopyPrevious ==
  LET prevIdx == PrevPlanIndex(dailyPlans, IndexOf(dates, selectedDate))
  IN IF prevIdx = 0
     THEN UNCHANGED vars
     ELSE /\ HandleUpdatePlan(
               WithCopiedSessions(dailyPlans, selectedDate,
                 ClonedSessions(dailyPlans[prevIdx].sessions,
                                FreshIds(UsedIds, Len(dailyPlans[prevIdx].sessions)))))
          /\ UNCHANGED <<selectedDate, isAiLoading, suggests, aiOutcome>>

\* { ...s, ...updates }: the fields `updates` names replace those of s.
Merged(session, updates) ==
  [f \in DOMAIN session |-> IF f \in DOMAIN updates THEN updates[f] ELSE session[f]]

\* updatedPlans of handleUpdateSession(date, sessionId, updates).
WithUpdatedSession(plans, date, sessionId, updates) ==
  [i \in DOMAIN plans |->
     IF plans[i].date = date
     THEN [plans[i] EXCEPT !.sessions =
             [j \in DOMAIN plans[i].sessions |->
                IF plans[i].sessions[j].id = sessionId
                THEN Merged(plans[i].sessions[j], updates)
                ELSE plans[i].sessions[j]]]
     ELSE plans[i]]

\* handleUpdateSession as the rows of the session log call it.
HandleUpdateSession(date, sessionId, updates) ==
  /\ HandleUpdatePlan(WithUpdatedSession(dailyPlans, date, sessionId, updates))
  /\ UNCHANGED <<selectedDate, isAiLoading, suggests, aiOutcome>>

\* currentPlan.sessions: the rows shown for the selected date.
CurrentSessions ==
  LET idx == PlanIndex(dailyPlans, selectedDate)
  IN IF idx = 0 THEN {}
     ELSE {dailyPlans[idx].sessions[j] : j \in DOMAIN dailyPlans[idx].sessions}

\* A completion toggle that only flips between pending and not pending, so
\* that a missed session goes back to pending (what the button is compared
\* against).
CompletedViaPending(status) == IF status = "pending" THEN "completed" ELSE "pending"

\* Status the "Verify Completion" button sets.
ToggleCompleted(status) == IF status = "completed" THEN "pending" ELSE "completed"

\* An absence toggle that sends a completed session back to pending (what
\* the button is compared against).
MissedViaPending(status) == IF status = "pending" THEN "missed" ELSE "pending"

\* Status the "Record Absence" button sets.
ToggleMissed(status) == IF status = "missed" THEN "pending" ELSE "missed"

\* "Verify Completion" on a row of the session log.
VerifyCompletionOn(session) ==
  /\ session \in CurrentSessions
  /\ HandleUpdateSession(selectedDate, session.id,
                         [status |-> ToggleCompleted(session.status)])

VerifyCompletion == \E session \in CurrentSessions : VerifyCompletionOn(session)

\* "Record Absence" on a row of the session log.
RecordAbsenceOn(session) ==
  /\ session \in CurrentSessions
  /\ HandleUpdateSession(selectedDate, session.id,
                         [status |-> ToggleMissed(session.status)])

RecordAbsence == \E session \in CurrentSessions : RecordAbsenceOn(session)

\* Texts typed into the Duration input.
DurationInputs == {"", "1"}

\* onChange of the Duration input: duration = parseInt(e.target.value) || 0.
SetDuration ==
  \E session \in CurrentSessions, s \in DurationInputs :
    HandleUpdateSession(selectedDate, session.id,
                        [duration |-> OrElse(ParseInt(s), 0)])

\* onChange of the Therapy Modality select: "Custom" stores the empty name.
SetTherapy ==
  \E session \in CurrentSessions, val \in {"Laser Therapy", "Custom"} :
    HandleUpdateSession(selectedDate, session.id,
                        [name |-> IF val = "Custom" THEN "" ELSE val])

\* Texts typed into the Clinical Settings textarea.
NotesInputs == {"2.5 W"}

\* onChange of the Clinical Settings textarea.
SetNotes ==
  \E session \in CurrentSessions, text \in NotesInputs :
    HandleUpdateSession(selectedDate, session.id, [notes |-> text])

\* A deletion that looks for the id in the plans of every date (what the
\* test of the date is compared against).
WithoutSessionAnywhere(plans, date, sessionId) ==
  [i \in DOMAIN plans |->
     [plans[i] EXCEPT !.sessions = SelectSeq(@, LAMBDA x : x.id # sessionId)]]

\* A deletion that drops the plan of the date once it holds no session (what
\* the kept plan is compared against).
CascadingDelete(plans, date, sessionId) ==
  SelectSeq([i \in DOMAIN plans |->
               IF plans[i].date = date
               THEN [plans[i] EXCEPT !.sessions =
                       SelectSeq(plans[i].sessions, LAMBDA x : x.id # sessionId)]
               ELSE plans[i]],
            LAMBDA plan : plan.date # date \/ plan.sessions # << >>)

\* updatedPlans of the "Delete Session" button.
WithoutSession(plans, date, sessionId) ==
  [i \in DOMAIN plans |->
     IF plans[i].date = date
     THEN [plans[i] EXCEPT !.sessions =
             SelectSeq(plans[i].sessions, LAMBDA x : x.id # sessionId)]
     ELSE plans[i]]

\* The onClick of the "Delete Session" button of the row of sessionId in the
\* session log of `date`.
HandleDeleteSession(date, sessionId) ==
  /\ HandleUpdatePlan(WithoutSession(dailyPlans, date, sessionId))
  /\ UNCHANGED <<selectedDate, isAiLoading, suggests, aiOutcome>>

DeleteSession ==
  \E session \in CurrentSessions : HandleDeleteSession(selectedDate, session.id)

\* Arguments handleUpdateSession and the delete callback are called with when
\* the caller is not a row of the session log shown: any date of the
\* treatment, any id (one more than the plans can hold), and updates that
\* differ from what a stored or a newly added session holds.
CallDates == 1..LastDay

CallIds == 1..(MaxSessions + 1)

CallUpdates == {[status |-> "completed"], [duration |-> 20]}

\* handleUpdateSession(date, sessionId, updates) called with such arguments.
UpdateSessionCall ==
  \E date \in CallDates, sessionId \in CallIds, updates \in CallUpdates :
    HandleUpdateSession(date, sessionId, updates)

\* The delete callback called with such arguments.
DeleteSessionCall ==
  \E date \in CallDates, sessionId \in CallIds : HandleDeleteSession(date, sessionId)

\* A calendar button: setSelectedDate(date).
SelectDate ==
  \E i \in DOMAIN dates :
    /\ selectedDate' = dates[i]
    /\ UNCHANGED <<xvars, dates, selectedDays, dailyPlans, isAiLoading, suggests,
                  aiOutcome, planOps>>

\* Sessions the service suggests.
AiSessions ==
  {[name |-> "Laser Therapy", duration |-> 15, notes |-> "low"],
   [name |-> DefaultTherapy, duration |-> 0, notes |-> ""]}

\* Entries of the answer: a weekday name and the sessions suggested for it.
AiDays ==
  {[dayName |-> WeekdayOf(d), sessions |-> ss] :
     d \in 1..LastDay, ss \in {<< >>} \cup {<<x>> : x \in AiSessions}}

\* What JSON.parse can return for an answer that parses: an array of up to
\* two entries, a value without a length (null, an object), or a string.
JsonValues ==
  {[type |-> "array", entries |-> e] :
     e \in {<< >>} \cup {<<d>> : d \in AiDays} \cup {<<d, e>> : d \in AiDays, e \in AiDays}}
  \cup {[type |-> t, entries |-> << >>] : t \in {"object", "string"}}

\* response.text: absent or empty, text that is not JSON, or JSON.
AiTexts ==
  {[kind |-> k, value |-> [type |-> "object", entries |-> << >>]] :
     k \in {"empty", "garbage"}}
  \cup {[kind |-> "json", value |-> v] : v \in JsonValues}

\* suggestPhysioPlan's result: JSON.parse(text || '[]'), and [] when
\* JSON.parse throws.
ParsedAnswer(text) ==
  IF text.kind = "json" THEN text.value ELSE [type |-> "array", entries |-> << >>]

\* A guard that lets every answer through (what the guard of the merge is
\* compared against).
AlwaysMerges(aiSuggestion) == TRUE

\* `aiSuggestion && aiSuggestion.length > 0`.
HasEntries(aiSuggestion) ==
  \/ aiSuggestion.type = "array" /\ Len(aiSuggestion.entries) > 0
  \/ aiSuggestion.type = "string"

\* aiSuggestion.forEach is not a function on a string: handleSuggestAI throws.
MergeThrows(aiSuggestion) == aiSuggestion.type = "string"

\* The forEach of handleSuggestAI from entry i on: entry i goes to
\* dates[startIndex + i] (skipped when there is no such date), appended to the
\* plan of that date or pushed as a new plan.
RECURSIVE MergeSuggestion(_, _, _, _, _)
MergeSuggestion(plans, aiSuggestion, i, startIndex, used) ==
  IF i > Len(aiSuggestion) THEN plans
  ELSE LET pos == startIndex + (i - 1)
       IN IF pos \notin DOMAIN dates
          THEN MergeSuggestion(plans, aiSuggestion, i + 1, startIndex, used)
          ELSE LET targetDate == dates[pos]
                   suggested == aiSuggestion[i].sessions
                   ids == FreshIds(used, Len(suggested))
                   sessions == [j \in 1..Len(suggested) |->
                                  [id |-> ids[j], name |-> suggested[j].name,
                                   duration |-> suggested[j].duration,
                                   notes |-> suggested[j].notes,
                                   status |-> "pending"]]
                   existingIdx == PlanIndex(plans, targetDate)
                   next == IF existingIdx # 0
                           THEN [plans EXCEPT ![existingIdx].sessions = @ \o sessions]
                           ELSE Append(plans, [date |-> targetDate, sessions |-> sessions])
               IN MergeSuggestion(next, aiSuggestion, i + 1, startIndex,
                                  used \cup {ids[j] : j \in 1..Len(suggested)})

\* "AI Generated Plan" (disabled while isAiLoading): handleSuggestAI up to
\* `await suggestPhysioPlan`; it keeps the patient.dailyPlans and selectedDate
\* of the render it was clicked in.
StartSuggestAI ==
  /\ ~isAiLoading
  /\ isAiLoading' = TRUE
  /\ suggests' = suggests (+) SetToBag({[plans |-> dailyPlans, selectedDate |-> selectedDate]})
  /\ UNCHANGED <<xvars, dates, selectedDays, selectedDate, dailyPlans, aiOutcome,
               planOps>>

\* suggestPhysioPlan resolved with the answer `text` for the invocation r:
\* the rest of handleSuggestAI.  When the merge throws, setIsAiLoading(false)
\* is not reached.
SuggestAIReturnsWith(r, text) ==
  LET aiSuggestion == ParsedAnswer(text)
  IN /\ r \in BagToSet(suggests)
     /\ suggests' = Without(suggests, r)
     /\ UNCHANGED selectedDate
     /\ IF ~HasEntries(aiSuggestion)
        THEN /\ isAiLoading' = FALSE
             /\ aiOutcome' = "nothing"
             /\ UNCHANGED <<xvars, dates, selectedDays, dailyPlans, planOps>>
        ELSE IF MergeThrows(aiSuggestion)
        THEN /\ aiOutcome' = "threw"
             /\ UNCHANGED <<xvars, dates, selectedDays, dailyPlans, planOps, isAiLoading>>
        ELSE /\ isAiLoading' = FALSE
             /\ aiOutcome' = "merged"
             /\ HandleUpdatePlan(MergeSuggestion(r.plans, aiSuggestion.entries, 1,
                                                 IndexOf(dates, r.selectedDate), UsedIds))

SuggestAIReturns ==
  \E r \in BagToSet(suggests), text \in AiTexts : SuggestAIReturnsWith(r, text)

\* suggestPhysioPlan rejected (generateContent is awaited outside its
\* try/catch): handleSuggestAI ends there, isAiLoading is left set.
SuggestAIFails ==
  \E r \in BagToSet(suggests) :
    /\ suggests' = Without(suggests, r)
    /\ aiOutcome' = "rejected"
    /\ UNCHANGED <<xvars, dates, selectedDays, selectedDate, dailyPlans, isAiLoading,
                  planOps>>

----------------------------------------------------------------------------
(* Dashboard: the progress of a patient *)

\* plan.sessions.filter(s => s.status === 'completed').length, summed over
\* the plans.
RECURSIVE CompletedSessions(_)
CompletedSessions(plans) ==
  IF plans = << >> THEN 0
  ELSE Len(SelectSeq(Head(plans).sessions, LAMBDA x : x.status = "completed"))
         + CompletedSessions(Tail(plans))

\* A percentage cut down to its whole part (what the rounding is compared
\* against).
Truncated(num, den) == (100 * num) \div den

\* Math.round((num / den) * 100) for 0 <= num <= den, den > 0: the nearest
\* integer, a half going up.
RoundedPercent(num, den) == (200 * num + den) \div (2 * den)

\* A stage read off the position of the status, half of the way per step
\* (what the stage mapping is compared against).
HalfPerStage(serviceType, hasXrayData, x, plans) ==
  IF serviceType = "x-ray" /\ hasXrayData THEN 50 * StatusRank(x.status) ELSE 0

\* calculateProgress(patient) of Dashboard.tsx: the stage of the order for an
\* x-ray patient, the share of completed sessions over all the daily plans
\* for a physiotherapy patient.
CalculateProgress(serviceType, hasXrayData, x, plans) ==
  IF serviceType = "x-ray"
  THEN IF ~hasXrayData THEN 0
       ELSE IF x.status = "reported" THEN 100
       ELSE IF x.status = "captured" THEN 50
       ELSE 10
  ELSE IF TotalSessions(plans) = 0 THEN 0
       ELSE RoundedPercent(CompletedSessions(plans), TotalSessions(plans))

\* The progress the Dashboard shows for the physiotherapy patient.
Progress == CalculateProgress("physiotherapy", FALSE, xray, dailyPlans)

\* A stored session with a status.
SessionWith(id, status) == [NewSession(id) EXCEPT !.status = status]

\* Plans of days 1 and 2 holding n1 and n2 sessions with the statuses st
\* (ids 1 .. n1 + n2); a day without sessions has no plan.
PlansWith(n1, n2, st) ==
  (IF n1 = 0 THEN << >>
   ELSE <<[date |-> 1, sessions |-> [j \in 1..n1 |-> SessionWith(j, st[j])]]>>)
  \o
  (IF n2 = 0 THEN << >>
   ELSE <<[date |-> 2, sessions |-> [j \in 1..n2 |-> SessionWith(n1 + j, st[n1 + j])]]>>)

\* patient.dailyPlans of the patients the Dashboard lists: up to
\* MaxStoredSessions sessions on the first two days, in any status.
StoredPatients ==
  UNION {{PlansWith(n1, n - n1, st) : n1 \in 0..n, st \in [1..n -> SessionStatuses]} :
           n \in 0..MaxStoredSessions}

----------------------------------------------------------------------------
(* Specifications *)

XrayInit == InitBuilds({"current"})

XrayNext ==
  \/ SetFilmsToUse
  \/ HandleFileUpload
  \/ StartRunAI
  \/ RunAIReturns
  \/ RunAIFails
  \/ RestockAdd
  \/ FilmWriteOk
  \/ FilmWriteLost
  \/ FilmWriteThrows
  \/ SaveOk
  \/ SaveLost
  \/ SaveThrows

XraySpec == XrayInit /\ [][XrayNext]_vars

BuildsInit == InitBuilds(Builds)

BuildsNext ==
  \/ XrayNext
  \/ HandleFileUploadInterim
  \/ CompleteFile
  \/ HandleFileUploadLegacy
  \/ UpdateStatus
  \/ AddStock

BuildsSpec == BuildsInit /\ [][BuildsNext]_vars

\* The planner screen of a physiotherapy patient treated from day 1 to day
\* LastDay, newly created by AddPatientModal (dailyPlans: []) or loaded with
\* a stored plan.  The planner does not read selectedDays.
PlannerInit ==
  /\ build = "current"
  /\ cloud \in BOOLEAN
  /\ filmCount = 0
  /\ dbFilms = 0
  /\ xray = NewOrder
  /\ dbXray = Stored(NewOrder)
  /\ filmsToUse = 1
  /\ syncError = FALSE
  /\ alert = "none"
  /\ dbDeducted = FALSE
  /\ calls = EmptyBag
  /\ aiRuns = EmptyBag
  /\ decreases = 0
  /\ \E tz \in TimeZones : dates = ExpandDates(1, LastDay, tz)
  /\ \E i \in DOMAIN dates : selectedDate = dates[i]
  /\ selectedDays = {}
  /\ dailyPlans \in StoredPlans
  /\ isAiLoading = FALSE
  /\ suggests = EmptyBag
  /\ aiOutcome = "none"
  /\ planOps = 0

PlannerNext ==
  \/ SelectDate
  \/ HandleAddSession
  \/ HandleCopyPrevious
  \/ VerifyCompletion
  \/ RecordAbsence
  \/ SetDuration
  \/ SetTherapy
  \/ SetNotes
  \/ DeleteSession
  \/ StartSuggestAI
  \/ SuggestAIReturns
  \/ SuggestAIFails

PlannerSpec == PlannerInit /\ [][PlannerNext]_vars

\* The planner with the promise of suggestPhysioPlan settling: a pending
\* handleSuggestAI is resumed, with an answer or with a rejection.  Nothing
\* makes the user click.
PlannerLiveSpec == PlannerSpec /\ WF_vars(SuggestAIReturns \/ SuggestAIFails)

\* A stored physiotherapy patient whose sessions are being ticked off in the
\* planner while the Dashboard shows the progress.
ProgressInit ==
  /\ build = "current"
  /\ cloud \in BOOLEAN
  /\ filmCount = 0
  /\ dbFilms = 0
  /\ xray = NewOrder
  /\ dbXray = Stored(NewOrder)
  /\ filmsToUse = 1
  /\ syncError = FALSE
  /\ alert = "none"
  /\ dbDeducted = FALSE
  /\ calls = EmptyBag
  /\ aiRuns = EmptyBag
  /\ decreases = 0
  /\ \E tz \in TimeZones : dates = ExpandDates(1, LastDay, tz)
  /\ \E i \in DOMAIN dates : selectedDate = dates[i]
  /\ selectedDays \in {{}, {WeekdayOf(1)}}
  /\ dailyPlans \in StoredPatients
  /\ isAiLoading = FALSE
  /\ suggests = EmptyBag
  /\ aiOutcome = "none"
  /\ planOps = 0

ProgressNext ==
  \/ SelectDate
  \/ VerifyCompletion
  \/ RecordAbsence

ProgressSpec == ProgressInit /\ [][ProgressNext]_vars

\* handleUpdateSession and the delete callback as functions of their
\* arguments, on the plans of a patient that the planner has loaded and added
\* sessions to.
SessionCallsNext ==
  \/ SelectDate
  \/ HandleAddSession
  \/ UpdateSessionCall
  \/ DeleteSessionCall

SessionCallsSpec == PlannerInit /\ [][SessionCallsNext]_vars

----------------------------------------------------------------------------
(* Properties of the film ledger and the radiology order *)

\* In this step a handleUpdateXray invocation started, and c is the suspended
\* invocation it left at its first await (c.upd is the update it will store).
XrayUpdateStarts(c) ==
  /\ c.op = "xray"
  /\ BagCardinality(calls') = BagCardinality(calls) + 1
  /\ CopiesIn(c, calls') = CopiesIn(c, calls) + 1

\* C1: film deduction happens at most once per order: over all the
\* handleUpdateXray invocations on the order, at most one lowers filmCount.
C1_DeductedAtMostOnce == decreases <= 1

\* C2: an upload while filmCount is below the films to use is refused: the
\* order (status, image) and filmCount stay as they are and nothing is sent
\* to the store.
C2_CaptureRefused ==
  [][(HandleFileUpload /\ filmCount < filmsToUse)
       => /\ xray' = xray
          /\ filmCount' = filmCount
          /\ calls' = calls
          /\ alert' = "insufficient"]_vars

\* An upload was refused on a fresh order: it is still ordered, without image,
\* with the film count below the films to use, and nothing was written.
C2_Witness ==
  /\ alert = "insufficient"
  /\ filmCount < filmsToUse
  /\ xray.status = "ordered"
  /\ ~xray.hasImage
  /\ calls = EmptyBag
  /\ dbFilms = filmCount

\* C3 as stated: whenever an update takes an order whose filmConsumed is not
\* set away from 'ordered', filmCount becomes max(0, filmCount -
\* filmsUsedCount) and the update carries filmConsumed = true.
C3_DeductsFilmsUsedCount ==
  [][\A c \in BagToSet(calls') :
       (/\ XrayUpdateStarts(c)
        /\ xray.status = "ordered" /\ ~xray.filmConsumed
        /\ c.upd.status # "ordered")
       => /\ filmCount' = Max(0, filmCount - c.upd.filmsUsedCount)
          /\ c.upd.filmConsumed]_vars

\* C3, amended: such an update deducts by revision.  With the counted handler
\* and a non-zero filmsUsedCount, filmCount becomes max(0, filmCount -
\* filmsUsedCount) and the update carries filmConsumed = true; with the counted
\* handler and no filmsUsedCount nothing is deducted and filmConsumed stays
\* unset; with the flat handler filmCount becomes max(0, filmCount - 1) and
\* the update carries filmConsumed = true.
C3_DeductsByRevision ==
  [][\A c \in BagToSet(calls') :
       (/\ XrayUpdateStarts(c)
        /\ xray.status = "ordered" /\ ~xray.filmConsumed
        /\ c.upd.status # "ordered")
       => IF build = "legacy"
          THEN filmCount' = Max(0, filmCount - 1) /\ c.upd.filmConsumed
          ELSE IF c.upd.filmsUsedCount # 0
               THEN /\ filmCount' = Max(0, filmCount - c.upd.filmsUsedCount)
                    /\ c.upd.filmConsumed
               ELSE filmCount' = filmCount /\ ~c.upd.filmConsumed]_vars

\* A capture using two films has taken the count from two to zero and is
\* writing it, the stored order still being 'ordered'.
C3_Witness ==
  /\ build = "current"
  /\ xray.status = "ordered"
  /\ dbFilms = 2
  /\ filmCount = 0
  /\ \E c \in BagToSet(calls) :
       /\ c.op = "xray" /\ c.pc = "film" /\ c.films = 0
       /\ c.upd.status = "captured"
       /\ c.upd.filmsUsedCount = 2
       /\ c.upd.filmConsumed

\* C4: filmCount is a non-negative integer in every reachable state.
C4_LedgerNonNegative == filmCount \in Nat

\* C5: a restock click with the typed amount adds exactly that amount when it
\* is a positive integer and leaves filmCount unchanged otherwise; it never
\* lowers filmCount.
C5_RestockAddsPositiveAmount ==
  [][\A s \in TypedInputs :
       (RestockAddClick(s) \/ AddStockClick(s))
       => filmCount' = filmCount + (IF IsPositive(ParseInt(s))
                                    THEN ParseInt(s).val ELSE 0)]_vars

\* C6: a handleUpdateXray invocation lowers filmCount only when it takes the
\* order from 'ordered' to 'captured'.
C6_DeductsOnlyOnCapture ==
  [][\A c \in BagToSet(calls') :
       (XrayUpdateStarts(c) /\ filmCount' < filmCount)
       => xray.status = "ordered" /\ c.upd.status = "captured"]_vars

\* C7: the status of the order in App state never moves backwards on
\* ordered -> captured -> reported.
C7_StatusMonotonic ==
  [][StatusRank(xray'.status) >= StatusRank(xray.status)]_vars

\* C8: whenever no write is pending, the store holds the order as
\* filmConsumed exactly if it holds the order's deducted film count.
C8_DeductionAndOrderStoredTogether ==
  calls = EmptyBag => (dbXray.filmConsumed <=> dbDeducted)

----------------------------------------------------------------------------
(* Properties of the plan list *)

\* C9: dailyPlans holds at most one plan per date in every reachable state.
C9_OnePlanPerDate ==
  \A i, j \in DOMAIN dailyPlans :
    dailyPlans[i].date = dailyPlans[j].date => i = j

\* Two plan updates have left two plans, each holding a session.
C9_Witness ==
  /\ planOps = 2
  /\ Len(dailyPlans) = 2
  /\ TotalSessions(dailyPlans) = 2
  /\ dailyPlans[1].date # dailyPlans[2].date

\* C10: an add-session step on the selected date appends one new session
\* (default therapy, pending) after the sessions the date's plan holds and
\* leaves the other plans as they are; when the date has no plan it appends
\* a plan for the date holding exactly that session.
C10_AddSessionAppends ==
  [][HandleAddSession =>
       LET idx == PlanIndex(dailyPlans, selectedDate)
       IN IF idx # 0
          THEN /\ Len(dailyPlans') = Len(dailyPlans)
               /\ \A i \in DOMAIN dailyPlans :
                    i # idx => dailyPlans'[i] = dailyPlans[i]
               /\ dailyPlans'[idx].date = selectedDate
               /\ LET old == dailyPlans[idx].sessions
                      new == dailyPlans'[idx].sessions
                  IN /\ Len(new) = Len(old) + 1
                     /\ SubSeq(new, 1, Len(old)) = old
                     /\ new[Len(new)].name = DefaultTherapy
                     /\ new[Len(new)].status = "pending"
          ELSE /\ Len(dailyPlans') = Len(dailyPlans) + 1
               /\ SubSeq(dailyPlans', 1, Len(dailyPlans)) = dailyPlans
               /\ dailyPlans'[Len(dailyPlans')].date = selectedDate
               /\ Len(dailyPlans'[Len(dailyPlans')].sessions) = 1
               /\ dailyPlans'[Len(dailyPlans')].sessions[1].name = DefaultTherapy
               /\ dailyPlans'[Len(dailyPlans')].sessions[1].status = "pending"]_vars

\* The same addition made twice on a date: its plan holds the added session
\* twice, under two ids.
C10_Witness ==
  /\ planOps = 2
  /\ \E i \in DOMAIN dailyPlans :
       /\ dailyPlans[i].date = selectedDate
       /\ Len(dailyPlans[i].sessions) = 2
       /\ dailyPlans[i].sessions[1].id # dailyPlans[i].sessions[2].id
       /\ \A j \in 1..2 : dailyPlans[i].sessions[j] = NewSession(dailyPlans[i].sessions[j].id)

\* The sessions of a plan list, and the status of the session with an id.
AllSessions(plans) ==
  UNION {{plans[i].sessions[j] : j \in DOMAIN plans[i].sessions} : i \in DOMAIN plans}

StatusOf(plans, id) == (CHOOSE x \in AllSessions(plans) : x.id = id).status

\* C11 (as stated): pressing Verify Completion on a session, whatever its
\* status, leaves it in a status from which a second press restores the
\* status it had: toggleCompleted(toggleCompleted(s)) = s.
C11_ToggleTwiceRestores ==
  [][\A session \in CurrentSessions :
       VerifyCompletionOn(session) =>
         ToggleCompleted(StatusOf(dailyPlans', session.id)) = session.status]_vars

\* C11 (amended): a second press restores the status of a pending or a
\* completed session; a missed session is completed by the first press and
\* made pending, not missed, by the second.
C11_ToggleTwiceRestoresUnlessMissed ==
  [][\A session \in CurrentSessions :
       VerifyCompletionOn(session) =>
         LET after == StatusOf(dailyPlans', session.id)
         IN IF session.status = "missed"
            THEN after = "completed" /\ ToggleCompleted(after) = "pending"
            ELSE ToggleCompleted(after) = session.status]_vars

\* The stored missed session after one plan update: Verify Completion has
\* made it completed.
C11_Witness ==
  /\ planOps = 1
  /\ [StoredSession EXCEPT !.status = "completed"] \in AllSessions(dailyPlans)

\* C12: Verify Completion sets completed unless the session is completed
\* (then pending), Record Absence sets missed unless it is missed (then
\* pending), whatever the other status was; and a session that changes status
\* in a step takes one of the six listed transitions.
C12_ToggleTransitions ==
  [][/\ \A session \in CurrentSessions :
          /\ VerifyCompletionOn(session) =>
               StatusOf(dailyPlans', session.id) =
                 (IF session.status = "completed" THEN "pending" ELSE "completed")
          /\ RecordAbsenceOn(session) =>
               StatusOf(dailyPlans', session.id) =
                 (IF session.status = "missed" THEN "pending" ELSE "missed")
     /\ \A id \in SessionIds(dailyPlans) \cap SessionIds(dailyPlans') :
          StatusOf(dailyPlans', id) # StatusOf(dailyPlans, id) =>
            <<StatusOf(dailyPlans, id), StatusOf(dailyPlans', id)>> \in
              {<<"pending", "completed">>, <<"pending", "missed">>,
               <<"completed", "pending">>, <<"missed", "pending">>,
               <<"missed", "completed">>, <<"completed", "missed">>}]_vars

\* A session added and then recorded as absent.
C12_Witness ==
  /\ planOps = 2
  /\ [NewSession(1) EXCEPT !.status = "missed"] \in AllSessions(dailyPlans)

\* C13: a Copy Prev Day click while the selected date is the first date of
\* the calendar, or while the date before it in the calendar has no plan,
\* leaves dailyPlans as it is and publishes no plan update.
C13_CopyPreviousNoOp ==
  [][(/\ HandleCopyPrevious
      /\ LET currentIndex == IndexOf(dates, selectedDate)
         IN \/ currentIndex <= 1
            \/ PlanIndex(dailyPlans, dates[currentIndex - 1]) = 0)
       => dailyPlans' = dailyPlans /\ planOps' = planOps]_vars

\* The first date of a two-day calendar is selected while the second date
\* has a plan with a session: a click on Copy Prev Day finds no previous day.
C13_Witness ==
  /\ Len(dates) = 2
  /\ dates[1] # dates[2]
  /\ selectedDate = dates[1]
  /\ planOps < MaxPlanOps
  /\ \E i \in DOMAIN dailyPlans :
       dailyPlans[i].date = dates[2] /\ dailyPlans[i].sessions # << >>

\* C14: a Copy Prev Day click while the date before the selected one has a
\* plan leaves the selected date with exactly one clone per session of that
\* plan, in the same order: same name, duration and notes, status pending, an
\* id that differs from its source's and from every id in use; the sessions
\* the selected date held are gone.
C14_CopyPreviousReplaces ==
  [][(/\ HandleCopyPrevious
      /\ IndexOf(dates, selectedDate) > 1
      /\ PlanIndex(dailyPlans, dates[IndexOf(dates, selectedDate) - 1]) # 0)
       => LET prevDate == dates[IndexOf(dates, selectedDate) - 1]
              source == dailyPlans[PlanIndex(dailyPlans, prevDate)].sessions
              target == PlanIndex(dailyPlans', selectedDate)
          IN /\ target # 0
             /\ LET clones == dailyPlans'[target].sessions
                IN /\ Len(clones) = Len(source)
                   /\ \A j \in DOMAIN source :
                        /\ clones[j].name = source[j].name
                        /\ clones[j].duration = source[j].duration
                        /\ clones[j].notes = source[j].notes
                        /\ clones[j].status = "pending"
                        /\ clones[j].id # source[j].id
                        /\ clones[j].id \notin SessionIds(dailyPlans)]_vars

\* The stored session of day 1 copied to day 2 after a session had been
\* added there: day 2 holds the clone alone, under the third id handed out.
C14_Witness ==
  /\ planOps = 2
  /\ dailyPlans =
       <<[date |-> 1, sessions |-> <<StoredSession>>],
         [date |-> 2,
          sessions |-> <<[StoredSession EXCEPT !.id = 3, !.status = "pending"]>>]>>

----------------------------------------------------------------------------
(* Properties of the AI-suggestion merge *)

\* The sessions of the plan of a date; none when the date has no plan.
SessionsOn(plans, date) ==
  IF PlanIndex(plans, date) = 0 THEN << >> ELSE plans[PlanIndex(plans, date)].sessions

\* The therapy names in a sequence of sessions.
NamesIn(sessions) == {sessions[j].name : j \in DOMAIN sessions}

\* The entries of an answer that handleSuggestAI, started on the date
\* `from`, puts on `date`.
PlacedOn(entries, from, date) ==
  {i \in DOMAIN entries :
     /\ IndexOf(dates, from) + (i - 1) \in DOMAIN dates
     /\ dates[IndexOf(dates, from) + (i - 1)] = date}

\* handleSuggestAI has merged the array `entries` for the invocation r, which
\* had seen the plans as they are now.
MergesEntries(r, text, entries) ==
  /\ SuggestAIReturnsWith(r, text)
  /\ text.kind = "json"
  /\ text.value.type = "array"
  /\ entries = text.value.entries
  /\ entries # << >>
  /\ r.plans = dailyPlans

\* C15: when the merge puts one entry on a date, the date's sessions stay as
\* they are if the date has a plan holding a session with one of the entry's
\* therapy names; otherwise the entry's sessions are appended.
C15_MergeDedupsByName ==
  [][\A r \in BagToSet(suggests), text \in AiTexts :
       \A i \in DOMAIN text.value.entries :
         LET entries == text.value.entries
             pos == IndexOf(dates, r.selectedDate) + (i - 1)
         IN (/\ MergesEntries(r, text, entries)
             /\ pos \in DOMAIN dates
             /\ PlacedOn(entries, r.selectedDate, dates[pos]) = {i})
            => LET old == SessionsOn(dailyPlans, dates[pos])
                   new == SessionsOn(dailyPlans', dates[pos])
                   suggested == entries[i].sessions
               IN IF NamesIn(old) \cap NamesIn(suggested) # {}
                  THEN new = old
                  ELSE /\ Len(new) = Len(old) + Len(suggested)
                       /\ SubSeq(new, 1, Len(old)) = old
                       /\ \A j \in DOMAIN suggested :
                            new[Len(old) + j].name = suggested[j].name]_vars

\* C16: every session the merge adds to a date comes from an entry of the
\* answer whose weekday name is the weekday of that date.
C16_MergePlacesByWeekday ==
  [][\A r \in BagToSet(suggests), text \in AiTexts :
       MergesEntries(r, text, text.value.entries) =>
         \A x \in AllSessions(dailyPlans') :
           x.id \notin SessionIds(dailyPlans) =>
             \E i \in DOMAIN text.value.entries, k \in DOMAIN dailyPlans' :
               /\ x \in AllSessions(<<dailyPlans'[k]>>)
               /\ text.value.entries[i].dayName = WeekdayOf(dailyPlans'[k].date)
               /\ x.name \in NamesIn(text.value.entries[i].sessions)]_vars

\* An answer that is empty or does not parse into a list of entries.
EmptyOrMalformed(text) ==
  \/ text.kind # "json"
  \/ text.value.type # "array"
  \/ text.value.entries = << >>

\* C17: when suggestPhysioPlan's answer is empty or malformed, the rest of
\* handleSuggestAI leaves dailyPlans as it is and publishes no plan update.
C17_EmptyAnswerNoMutation ==
  [][\A r \in BagToSet(suggests), text \in AiTexts :
       (SuggestAIReturnsWith(r, text) /\ EmptyOrMalformed(text))
         => dailyPlans' = dailyPlans /\ planOps' = planOps]_vars

\* An invocation started on a stored plan has ended on an answer without
\* entries, and no plan update has been published.
C17_Witness ==
  /\ aiOutcome = "nothing"
  /\ suggests = EmptyBag
  /\ ~isAiLoading
  /\ planOps = 0
  /\ dailyPlans # << >>

----------------------------------------------------------------------------
(* Properties of the calendar and of the progress *)

\* C18: the calendar of a patient treated from day 1 to day LastDay holds
\* the consecutive days 1 .. LastDay, once each and in ascending order, cut
\* after SafetyLimit entries.
C18_ExpandsConsecutiveDays ==
  dates = [i \in 1..Min(LastDay, SafetyLimit) |-> i]

\* The daily plans whose weekday the patient is scheduled on; all of them
\* when the schedule is empty.
ScheduledPlans ==
  SelectSeq(dailyPlans,
            LAMBDA plan : selectedDays = {} \/ WeekdayOf(plan.date) \in selectedDays)

\* C19: the progress shown is the share of completed sessions among the
\* sessions of the scheduled plans only; plans of other weekdays add nothing
\* to either count.
C19_ProgressCountsScheduledDays ==
  Progress = (IF TotalSessions(ScheduledPlans) = 0 THEN 0
              ELSE RoundedPercent(CompletedSessions(ScheduledPlans),
                                  TotalSessions(ScheduledPlans)))

\* C20: the progress shown is an integer from 0 to 100, 0 when no session is
\* counted, else an integer nearest to 100 * completed / total, taken over
\* the sessions calculateProgress counts.
C20_ProgressIsRoundedShare ==
  LET completed == Cardinality({x \in AllSessions(dailyPlans) : x.status = "completed"})
      total == Cardinality(AllSessions(dailyPlans))
      off == Progress * total - 100 * completed
  IN /\ Progress \in 0..100
     /\ total = 0 => Progress = 0
     /\ total > 0 => 2 * off <= total /\ 2 * (0 - off) <= total

\* After a tick in the planner two of three sessions are completed and the
\* progress is 67.
C20_Witness ==
  /\ planOps = 1
  /\ Cardinality(AllSessions(dailyPlans)) = 3
  /\ Cardinality({x \in AllSessions(dailyPlans) : x.status = "completed"}) = 2
  /\ Progress = 67

----------------------------------------------------------------------------
(* Properties of the stage of an x-ray patient *)

\* The progress the Dashboard shows in the row of the x-ray patient;
\* hasXrayData is FALSE for a patient loaded without xray_data.
XrayProgress(hasXrayData) == CalculateProgress("x-ray", hasXrayData, xray, dailyPlans)

\* C21: the progress of an x-ray patient is 10, 50, 100 while the order is
\* ordered, captured, reported, and 0 for a patient without an order.
C21_XrayStageMapping ==
  /\ XrayProgress(TRUE) = <<10, 50, 100>>[StatusRank(xray.status) + 1]
  /\ XrayProgress(FALSE) = 0

\* The order has been captured and reported and every write has finished:
\* the row shows 100.
C21_Witness ==
  /\ xray.status = "reported"
  /\ xray.filmConsumed
  /\ calls = EmptyBag
  /\ XrayProgress(TRUE) = 100

----------------------------------------------------------------------------
(* Properties of updating and deleting a session *)

\* The date has no plan, or its plan holds no session with the id.
TargetMissing(date, sessionId) ==
  \A j \in DOMAIN SessionsOn(dailyPlans, date) :
    SessionsOn(dailyPlans, date)[j].id # sessionId

\* C22: handleUpdateSession and the delete callback, called for a date that
\* has no plan or for an id the plan of the date does not hold, leave
\* dailyPlans as it is (every plan, every session) and run to their end: the
\* unchanged plans are handed to onUpdatePlan, nothing is thrown.
C22_MissingTargetNoOp ==
  [][\A date \in CallDates, sessionId \in CallIds :
       TargetMissing(date, sessionId) =>
         /\ \A updates \in CallUpdates :
              HandleUpdateSession(date, sessionId, updates)
                => dailyPlans' = dailyPlans /\ planOps' = planOps + 1
         /\ HandleDeleteSession(date, sessionId)
              => dailyPlans' = dailyPlans /\ planOps' = planOps + 1]_vars

\* One call has been made on the stored plan and the plan is as it was: the
\* call named a date or an id that the plan does not hold (every update of
\* CallUpdates changes the stored session, a deletion removes it).
C22_Witness ==
  /\ planOps = 1
  /\ dailyPlans = <<[date |-> 1, sessions |-> <<StoredSession>>]>>

\* C23: a Delete Session click on a row of the selected date removes that
\* session and no other from the plan of the date, the rest keeping their
\* order; the plan of the date stays in dailyPlans, at its place, also when it
\* is left without sessions; the other plans are as they were.
C23_DeleteRemovesOneSession ==
  [][\A session \in CurrentSessions :
       HandleDeleteSession(selectedDate, session.id) =>
         LET idx == PlanIndex(dailyPlans, selectedDate)
             old == dailyPlans[idx].sessions
         IN /\ Len(dailyPlans') = Len(dailyPlans)
            /\ dailyPlans'[idx].date = selectedDate
            /\ \E k \in DOMAIN old :
                 /\ old[k] = session
                 /\ dailyPlans'[idx].sessions =
                      SubSeq(old, 1, k - 1) \o SubSeq(old, k + 1, Len(old))
            /\ \A i \in DOMAIN dailyPlans :
                 i # idx => dailyPlans'[i] = dailyPlans[i]]_vars

\* The only session of the stored plan has been deleted: the plan of day 1 is
\* still there, without sessions.
C23_Witness ==
  /\ planOps = 1
  /\ dailyPlans = <<[date |-> 1, sessions |-> << >>]>>

----------------------------------------------------------------------------
(* Properties of a failed save *)

\* C24: when savePatients fails during a plan update, the failure reaches the
\* caller (syncError is set) and patient.dailyPlans in App state is what it
\* was before the update.
C24_FailedSaveKeepsSnapshot ==
  [][HandleUpdatePlanWith(dailyPlans', FALSE)
       => syncError' /\ dailyPlans' = dailyPlans]_vars

----------------------------------------------------------------------------
(* Properties of the fields of a session *)

\* C25: every session of dailyPlans has a duration that is a positive
\* integer, in every reachable state.
C25_DurationPositive ==
  \A x \in AllSessions(dailyPlans) : x.duration \in Nat \ {0}

----------------------------------------------------------------------------
(* Properties of the films a capture uses *)

\* C26: an upload never raises the ledger: whatever the Films to Use input
\* holds, filmCount after a handleFileUpload step is at most filmCount
\* before it.
C26_CaptureNeverIncreases ==
  [][HandleFileUpload => filmCount' <= filmCount]_vars

\* C27: the filmsUsedCount of an order whose films were taken off the ledger
\* is the count that was taken (handleUpdateXray deducts the filmsUsedCount
\* of the update it marks as consumed and stores): once the order in App
\* state has filmConsumed set, no later step, a Replace Scan with another
\* Films to Use value included, changes its filmsUsedCount.
C27_ConsumedCountKept ==
  [][(xray.filmConsumed /\ xray'.filmConsumed)
       => xray'.filmsUsedCount = xray.filmsUsedCount]_vars

----------------------------------------------------------------------------
(* Properties of handleSuggestAI across its await *)

\* C28: no plan update is lost across `await suggestPhysioPlan`: when
\* handleSuggestAI merges an answer, every session dailyPlans held just
\* before the merge (as added or edited while the request was pending) is
\* still there with the same fields, and no session deleted meanwhile comes
\* back.
C28_NoLostUpdate ==
  [][\A r \in BagToSet(suggests), text \in AiTexts :
       (SuggestAIReturnsWith(r, text) /\ planOps' = planOps + 1)
         => /\ AllSessions(dailyPlans) \subseteq AllSessions(dailyPlans')
            /\ \A x \in AllSessions(dailyPlans') :
                 x.id \in SessionIds(r.plans) => x \in AllSessions(dailyPlans)]_vars

\* C29: whenever handleSuggestAI has set isAiLoading, isAiLoading is
\* eventually false again, whether the service answers with sessions, with
\* an empty list, or fails.
C29_LoadingEventuallyEnds == isAiLoading ~> ~isAiLoading

----------------------------------------------------------------------------
(* The dates a plan operation leaves alone *)

\* A click on "+ Machine Entry", "Copy Prev Day" or on a control of a row of
\* the session log.
PlanOperation ==
  \/ HandleAddSession
  \/ HandleCopyPrevious
  \/ VerifyCompletion
  \/ RecordAbsence
  \/ SetDuration
  \/ SetTherapy
  \/ SetNotes
  \/ DeleteSession

\* C30: adding, updating or deleting a session and copying the previous day
\* on the selected date leave the plan of every other date as it is, at its
\* place in dailyPlans, and bring in no plan for another date.
C30_OtherDatesUntouched ==
  [][PlanOperation =>
       /\ \A i \in DOMAIN dailyPlans :
            dailyPlans[i].date # selectedDate
              => i \in DOMAIN dailyPlans' /\ dailyPlans'[i] = dailyPlans[i]
       /\ \A k \in DOMAIN dailyPlans' :
            dailyPlans'[k].date # selectedDate
              => k \in DOMAIN dailyPlans /\ dailyPlans'[k] = dailyPlans[k]]_vars

\* A session was added on day 2 and verified there: the stored plan of day 1
\* is as it was loaded.
C30_Witness ==
  /\ planOps = 2
  /\ selectedDate = 2
  /\ dailyPlans = <<[date |-> 1, sessions |-> <<StoredSession>>],
                    [date |-> 2, sessions |-> <<SessionWith(2, "completed")>>]>>

====
